---------------------------- MODULE Spec2Model ----------------------------
(***************************************************************************)
(* Wright-Fisher simulation on three fitness landscapes (simple, adjacent, *)
(* hybrid): the per-generation update functions of wright_fisher.py, the    *)
(* fitness vectors of fitness_landscape.py and the simulation drivers and  *)
(* statistics logger of main.py.                                           *)
(*                                                                         *)
(* Arrays are functions over 0..len-1 (numpy's 0-based indexing).  An      *)
(* array access a[i] follows Python: -len <= i < 0 addresses len + i, and  *)
(* an index outside -len..len-1 raises IndexError.  Random draws are       *)
(* nondeterministic choices over the support of their distribution.        *)
(* Floats are exact rationals <<num, den>>; NaN is <<0, 0>>.  The fitness  *)
(* vectors are instantiated at s = s_l = s_r = ln 2 and eps = 0, where     *)
(* exp(-s * d^(1 - eps)) is exactly 2^-d.                                   *)
(***************************************************************************)
EXTENDS Integers, Sequences, FiniteSets

\* ---- bounds of the model ----
\* largest landscape size l, l_l, l_r of a simulation run
MaxL == 1
\* largest population size n of a simulation run
MaxN == 2
\* largest number of generations of a simulation run
MaxGen == 1
\* largest number of mutations one Poisson draw yields
MaxMut == 2
\* largest landscape size when an update function is called on its own
MaxCallL == 2
\* largest population size when an update function is called on its own
MaxCallN == 2
\* largest landscape size when a single newborn is classified
MaxDestL == 3
\* largest landscape size of a run of several generations
MaxLogL == 1
\* largest population size of a run of several generations
MaxLogN == 1
\* largest number of generations of a run of several generations
MaxLogGen == 2

VARIABLES
    landscape,          \* which entry point runs: "simple", "adjacent", "hybrid"
    l, l_l, l_r,        \* landscape sizes (l: simple; l_l, l_r: adjacent, hybrid)
    n,                  \* population size
    u_ben, u_del,       \* mutation rates: negative, 0 or positive
    p_r,                \* probability (percent) of the right path at the hybrid peak
    generations,        \* number of iterations asked for
    pc,                 \* "setup", "loop", "done", "error"; "call", "returned"; "classify"
    err,                \* "none" or the exception that ended the run
    iteration,          \* the loop variable of the simulation
    heap,               \* the arrays allocated so far, by reference 1..Len(heap)
    counts,             \* reference of the current bin-count vector
    returned,           \* reference of the vector an update call returned (0: none)
    raw_logger,         \* the raw per-generation log: a sequence of references
    counts_logger, fitness_logger,
    counts_logger_l, fitness_logger_l,
    counts_logger_r, fitness_logger_r,
    draw,               \* the newborn a single classification was applied to
    landed              \* where that newborn was counted

vars == <<landscape, l, l_l, l_r, n, u_ben, u_del, p_r, generations, pc, err,
          iteration, heap, counts, returned, raw_logger,
          counts_logger, fitness_logger, counts_logger_l, fitness_logger_l,
          counts_logger_r, fitness_logger_r, draw, landed>>

\* ---- integers and rationals ----
Min(a, b) == IF a <= b THEN a ELSE b

Max(a, b) == IF a >= b THEN a ELSE b

Abs(a) == IF a < 0 THEN -a ELSE a

RECURSIVE GCD(_, _)
GCD(a, b) == IF b = 0 THEN a ELSE GCD(b, a % b)

RECURSIVE Pow2(_)
Pow2(d) == IF d <= 0 THEN 1 ELSE 2 * Pow2(d - 1)

\* the float num/den; 0/0 is NaN
Rat(num, den) ==
    IF den = 0 THEN <<0, 0>>
    ELSE LET g == GCD(Abs(num), Abs(den))
             sg == IF den < 0 THEN -1 ELSE 1
         IN  <<sg * (num \div g), sg * (den \div g)>>

NaN == <<0, 0>>

Zero == Rat(0, 1)

RatAdd(x, y) == Rat(x[1] * y[2] + y[1] * x[2], x[2] * y[2])

RatSub(x, y) == Rat(x[1] * y[2] - y[1] * x[2], x[2] * y[2])

RatMul(x, y) == Rat(x[1] * y[1], x[2] * y[2])

RatDiv(x, y) == Rat(x[1] * y[2], x[2] * y[1])

\* ---- numpy arrays ----
\* len(a) of an array a
Size(a) == Cardinality(DOMAIN a)

\* np.zeros(size, dtype=int)
np_zeros(size) == [k \in 0..(size - 1) |-> 0]

RECURSIVE SumUpTo(_, _)
SumUpTo(a, k) == IF k < 0 THEN 0 ELSE a[k] + SumUpTo(a, k - 1)

\* np.sum(a)
np_sum(a) == SumUpTo(a, Size(a) - 1)

\* np.clip(x, a_min, a_max) = minimum(a_max, maximum(x, a_min))
np_clip(x, a_min, a_max) == Min(a_max, Max(x, a_min))

\* a[i]: does the index address an element
PyIndexOk(len, i) == -len <= i /\ i < len

\* a[i]: the element addressed
PyIndexAt(len, i) == IF i < 0 THEN len + i ELSE i

\* a[:stop] and a[start:]: Python's bound of a slice
PySliceBound(len, k) == IF k < 0 THEN Max(0, len + k) ELSE Min(len, k)

\* a[:stop]
SliceTo(a, stop) ==
    [k \in 0..(PySliceBound(Size(a), stop) - 1) |-> a[k]]

\* a[start:]
SliceFrom(a, start) ==
    LET s0 == PySliceBound(Size(a), start)
    IN  [k \in 0..(Size(a) - s0 - 1) |-> a[s0 + k]]

\* ---- fitness_landscape.py, at s = ln 2 and eps = 0 ----
\* exp(-s * d^(1 - eps)) = 2^-d
ExpFitness(d) == Rat(1, Pow2(d))

\* simple_landscape(s, eps, k = np.arange(size))
simple_landscape(size) == [d \in 0..(size - 1) |-> ExpFitness(d)]

\* adjacent_landscape(s_l, s_r, eps_l, eps_r, l_l, l_r, k = np.arange(size))
adjacent_landscape(ll, lr, size) ==
    [d \in 0..(size - 1) |->
        IF 0 <= d /\ d <= ll THEN ExpFitness(d)
        ELSE ExpFitness(ll + lr + 1 - d)]

\* hybrid_landscape(s_l, s_r, eps_l, eps_r, l_l, l_r, k = np.arange(size))
hybrid_landscape(ll, lr, size) ==
    [d \in 0..(size - 1) |->
        IF 0 <= d /\ d <= ll THEN ExpFitness(ll - d)
        ELSE ExpFitness(d - ll)]

\* ---- wright_fisher.py: _generate_newborn_and_mutation ----
\* fitness_mass = counts * fitness
fitness_mass(cnt, fit) == [k \in DOMAIN cnt |-> RatMul(Rat(cnt[k], 1), fit[k])]

RECURSIVE RatSumUpTo(_, _)
RatSumUpTo(a, k) == IF k < 0 THEN Zero ELSE RatAdd(a[k], RatSumUpTo(a, k - 1))

\* fitness_prob = fitness_mass / np.sum(fitness_mass)
fitness_prob(cnt, fit) ==
    LET mass == fitness_mass(cnt, fit)
        total == RatSumUpTo(mass, Size(mass) - 1)
    IN  [k \in DOMAIN mass |-> RatDiv(mass[k], total)]

\* np.random.choice(l + 1, size=n, p=fitness_prob) and the two
\* np.random.poisson(lam=u, size=n) return without a ValueError
SamplingOk(pop, lsz, ub, ud, cnt, fit) ==
    LET p == fitness_prob(cnt, fit)
    IN  /\ lsz + 1 > 0
        /\ Size(p) = lsz + 1
        /\ \A k \in DOMAIN p : p[k] # NaN /\ p[k][1] >= 0
        /\ pop >= 0
        /\ ub >= 0
        /\ ud >= 0

\* the bins np.random.choice can return: those of positive probability
NewbornSupport(cnt, fit) ==
    LET p == fitness_prob(cnt, fit)
    IN  {k \in DOMAIN p : p[k] # NaN /\ p[k][1] > 0}

\* the values np.random.poisson(lam=u) can return, up to MaxMut
MutSupport(u) == IF u = 0 THEN {0} ELSE 0..MaxMut

\* the values np.random.binomial(1, p_r) can return
CoinSupport(p) == {c \in {0, 1} : (c = 1 => p > 0) /\ (c = 0 => p < 100)}

\* ---- the index one newborn is counted at ----
\* simple_index with the roles of the two mutation kinds exchanged
simple_index_swapped(lsz, b, ben, del) == np_clip(b + ben - del, 0, lsz)

\* simple landscape: np.clip(newborn - mut_ben + mut_del, 0, l)
simple_index(lsz, b, ben, del) == np_clip(b - ben + del, 0, lsz)

\* adjacent_index with a plain clamp to the vector instead of the valley rule
adjacent_index_clamp(ll, lr, b, ben, del) ==
    IF b <= ll
    THEN Min(ll + lr + 1, Max(0, b - ben + del))
    ELSE Min(ll + lr + 1, Max(0, b + ben - del))

\* adjacent_index crossing the valley one step early (>= and < for > and <=)
adjacent_index_eager(ll, lr, b, ben, del) ==
    IF b <= ll
    THEN LET m == b - ben + del
         IN  IF m >= ll THEN ll + 1 ELSE Max(0, m)
    ELSE LET m == b + ben - del
         IN  IF m < ll THEN ll ELSE Min(ll + lr + 1, m)

\* adjacent landscape: the valley lies between l_l and l_l + 1
adjacent_index(ll, lr, b, ben, del) ==
    IF b <= ll
    THEN LET m == b - ben + del
         IN  IF m > ll THEN ll + 1 ELSE Max(0, m)
    ELSE LET m == b + ben - del
         IN  IF m <= ll THEN ll ELSE Min(ll + lr + 1, m)

\* hybrid_index whose off-peak branches clamp at the outer boundaries only
hybrid_index_nopeakclamp(ll, lr, b, ben, del, coin) ==
    IF b < ll
    THEN Max(0, Min(ll + lr, b + ben - del))
    ELSE IF b > ll
    THEN Min(ll + lr, Max(0, b - ben + del))
    ELSE LET m == Max(0, del - ben)
         IN  IF coin = 1 THEN ll + m ELSE ll - m

\* hybrid_index whose peak branch clamps its destination to the vector
hybrid_index_clamped(ll, lr, b, ben, del, coin) ==
    IF b < ll
    THEN Max(0, Min(ll, b + ben - del))
    ELSE IF b > ll
    THEN Min(ll + lr, Max(ll, b - ben + del))
    ELSE LET m == Max(0, del - ben)
         IN  IF coin = 1 THEN Min(ll + lr, ll + m) ELSE Max(0, ll - m)

\* hybrid landscape: the peak is bin l_l; coin = np.random.binomial(1, p_r)
hybrid_index(ll, lr, b, ben, del, coin) ==
    IF b < ll
    THEN LET m == b + ben - del
         IN  Max(0, Min(ll, m))
    ELSE IF b > ll
    THEN LET m == b - ben + del
         IN  Min(ll + lr, Max(ll, m))
    ELSE LET m == Max(0, del - ben)
         IN  IF coin = 1 THEN ll + m ELSE ll - m

\* ---- one generation ----
\* the result of an update call: a vector, or the exception raised
Returns(v) == [err |-> "none", vec |-> v]

Raises(e) == [err |-> e, vec |-> np_zeros(0)]

\* tally with counts_next[idx[i]] = 1 for counts_next[idx[i]] += 1
tally_overwrite(size, pop, idx) ==
    IF \E i \in 0..(pop - 1) : ~PyIndexOk(size, idx[i])
    THEN Raises("IndexError")
    ELSE Returns([k \in 0..(size - 1) |->
            IF \E i \in 0..(pop - 1) : PyIndexAt(size, idx[i]) = k
            THEN 1 ELSE 0])

\* counts_next = np.zeros(size); for i in range(n): counts_next[idx[i]] += 1
tally(size, pop, idx) ==
    IF \E i \in 0..(pop - 1) : ~PyIndexOk(size, idx[i])
    THEN Raises("IndexError")
    ELSE Returns([k \in 0..(size - 1) |->
            Cardinality({i \in 0..(pop - 1) : PyIndexAt(size, idx[i]) = k})])

\* every result the loop over the n newborns can produce, given the set of
\* indices one newborn can be counted at
Generation(size, pop, indices) ==
    {tally(size, pop, idx) : idx \in [0..(pop - 1) -> indices]}

\* simple_landscape_wright_fisher(n, l, u_ben, u_del, counts, fitness)
simple_landscape_wright_fisher(pop, lsz, ub, ud, cnt, fit) ==
    IF ~SamplingOk(pop, lsz, ub, ud, cnt, fit)
    THEN {Raises("ValueError")}
    ELSE Generation(lsz + 1, pop,
            {simple_index(lsz, b, ben, del) :
                <<b, ben, del>> \in NewbornSupport(cnt, fit)
                                    \X MutSupport(ub) \X MutSupport(ud)})

\* adjacent_landscape_wright_fisher(n, l_l, l_r, u_ben, u_del, counts, fitness)
adjacent_landscape_wright_fisher(pop, ll, lr, ub, ud, cnt, fit) ==
    IF ~SamplingOk(pop, ll + lr + 1, ub, ud, cnt, fit)
    THEN {Raises("ValueError")}
    ELSE Generation(ll + lr + 2, pop,
            {adjacent_index(ll, lr, b, ben, del) :
                <<b, ben, del>> \in NewbornSupport(cnt, fit)
                                    \X MutSupport(ub) \X MutSupport(ud)})

\* hybrid_landscape_wright_fisher(n, l_l, l_r, u_ben, u_del, p_r, counts, fitness)
hybrid_landscape_wright_fisher(pop, ll, lr, ub, ud, p, cnt, fit) ==
    IF ~SamplingOk(pop, ll + lr, ub, ud, cnt, fit)
    THEN {Raises("ValueError")}
    ELSE Generation(ll + lr + 1, pop,
            {hybrid_index(ll, lr, b, ben, del, coin) :
                <<b, ben, del, coin>> \in NewbornSupport(cnt, fit)
                    \X MutSupport(ub) \X MutSupport(ud) \X CoinSupport(p)})

\* ---- main.py: _logger ----
\* mean and variance of np.repeat(values, counts)
Stats(values, cnt) ==
    LET total == Rat(np_sum(cnt), 1)
        s1 == RatSumUpTo([k \in DOMAIN cnt |->
                    RatMul(Rat(cnt[k], 1), values[k])], Size(cnt) - 1)
        s2 == RatSumUpTo([k \in DOMAIN cnt |->
                    RatMul(Rat(cnt[k], 1), RatMul(values[k], values[k]))],
                    Size(cnt) - 1)
        mean == RatDiv(s1, total)
    IN  <<mean, RatSub(RatDiv(s2, total), RatMul(mean, mean))>>

\* np.arange(start, start + fitness.shape[0])
np_arange(start, len) == [k \in 0..(len - 1) |-> Rat(start + k, 1)]

\* np.zeros((generations, 2))
EmptyLog(gens) == [it \in 0..(gens - 1) |-> <<Zero, Zero>>]

\* _logger without the test np.sum(counts) > 0
_logger_unguarded(cnt, fit, it, clog, flog, raw, ref, start) ==
    [counts_logger |->
        [clog EXCEPT ![it] = Stats(np_arange(start, Size(fit)), cnt)],
     fitness_logger |-> [flog EXCEPT ![it] = Stats(fit, cnt)],
     raw_logger |-> IF Len(raw) > 0 THEN Append(raw, ref) ELSE raw]

\* _logger(counts, fitness, iteration, counts_logger, fitness_logger,
\*         raw_logger, start): the two loggers and the raw log afterwards;
\* ref is the reference of counts, and a raw_logger of None is <<>>
_logger(cnt, fit, it, clog, flog, raw, ref, start) ==
    [counts_logger |->
        IF np_sum(cnt) > 0
        THEN [clog EXCEPT ![it] = Stats(np_arange(start, Size(fit)), cnt)]
        ELSE [clog EXCEPT ![it] = <<Zero, Zero>>],
     fitness_logger |->
        IF np_sum(cnt) > 0
        THEN [flog EXCEPT ![it] = Stats(fit, cnt)]
        ELSE [flog EXCEPT ![it] = <<Zero, Zero>>],
     raw_logger |-> IF Len(raw) > 0 THEN Append(raw, ref) ELSE raw]

\* ---- main.py: the three simulations ----
\* NewArrayRef of an update that writes into its input vector
NewArrayRef_inplace(h, cur) == cur

\* the reference of the array a fresh np.zeros gets
NewArrayRef(h, cur) == Len(h) + 1

\* the heap once the array of reference ref holds v
Store(h, ref, v) == IF ref <= Len(h) THEN [h EXCEPT ![ref] = v] ELSE Append(h, v)

\* the fitness vector of the run
fitness ==
    CASE landscape = "simple" -> simple_landscape(l + 1)
      [] landscape = "adjacent" -> adjacent_landscape(l_l, l_r, l_l + l_r + 2)
      [] landscape = "hybrid" -> hybrid_landscape(l_l, l_r, l_l + l_r + 1)

params == <<landscape, l, l_l, l_r, n, u_ben, u_del, p_r, generations>>

loggers == <<counts_logger, fitness_logger, counts_logger_l, fitness_logger_l,
             counts_logger_r, fitness_logger_r>>

\* an exception leaves the entry point: nothing is returned
Fail(e) ==
    /\ pc' = "error"
    /\ err' = e
    /\ UNCHANGED <<params, iteration, heap, counts, returned, raw_logger,
                   loggers, draw, landed>>

\* the state once the setup of an entry point has built its arrays
Ready(vec, raw, split) ==
    /\ pc' = "loop"
    /\ iteration' = 0
    /\ heap' = <<vec>>
    /\ counts' = 1
    /\ raw_logger' = raw
    /\ counts_logger' = EmptyLog(generations)
    /\ fitness_logger' = EmptyLog(generations)
    /\ counts_logger_l' = IF split THEN EmptyLog(generations) ELSE EmptyLog(0)
    /\ fitness_logger_l' = IF split THEN EmptyLog(generations) ELSE EmptyLog(0)
    /\ counts_logger_r' = IF split THEN EmptyLog(generations) ELSE EmptyLog(0)
    /\ fitness_logger_r' = IF split THEN EmptyLog(generations) ELSE EmptyLog(0)
    /\ UNCHANGED <<params, err, returned, draw, landed>>

\* simulate_simple_landscape, up to the loop
SetupSimple ==
    /\ pc = "setup" /\ landscape = "simple"
    /\ IF generations < 0 \/ l + 1 < 0 THEN Fail("ValueError")
       ELSE IF ~PyIndexOk(l + 1, 0) THEN Fail("IndexError")
       ELSE Ready([np_zeros(l + 1) EXCEPT ![0] = n], <<>>, FALSE)

\* simulate_adjacent_landscape, up to the loop
SetupAdjacent ==
    /\ pc = "setup" /\ landscape = "adjacent"
    /\ IF generations < 0 \/ l_l + l_r + 2 <= 0 THEN Fail("ValueError")
       ELSE \E start \in 0..(l_l + l_r + 1) :
                Ready([np_zeros(l_l + l_r + 2) EXCEPT ![start] = n], <<1>>, TRUE)

\* simulate_hybrid_landscape, up to the loop
SetupHybrid ==
    /\ pc = "setup" /\ landscape = "hybrid"
    /\ IF generations < 0 \/ l_l + l_r + 1 < 0 THEN Fail("ValueError")
       ELSE IF ~PyIndexOk(l_l + l_r + 1, l_l) THEN Fail("IndexError")
       ELSE Ready([np_zeros(l_l + l_r + 1) EXCEPT
                       ![PyIndexAt(l_l + l_r + 1, l_l)] = n], <<1>>, TRUE)

\* one iteration of simulate_simple_landscape
GenerationSimple ==
    /\ pc = "loop" /\ landscape = "simple" /\ iteration < generations
    /\ \E out \in simple_landscape_wright_fisher(
                      n, l, u_ben, u_del, heap[counts], fitness) :
          IF out.err # "none" THEN Fail(out.err)
          ELSE LET ref == NewArrayRef(heap, counts)
                   lg == _logger(out.vec, fitness, iteration, counts_logger,
                                 fitness_logger, <<>>, ref, 0)
               IN  /\ heap' = Store(heap, ref, out.vec)
                   /\ counts' = ref
                   /\ counts_logger' = lg.counts_logger
                   /\ fitness_logger' = lg.fitness_logger
                   /\ iteration' = iteration + 1
                   /\ UNCHANGED <<params, pc, err, returned, raw_logger,
                                  counts_logger_l, fitness_logger_l,
                                  counts_logger_r, fitness_logger_r,
                                  draw, landed>>

\* the three _logger calls of one iteration on the adjacent and the hybrid
\* landscape: the whole vector, counts[:split_l] and counts[split_r:]
LogSplit(vec, ref, split_l, split_r) ==
    LET lg == _logger(vec, fitness, iteration, counts_logger, fitness_logger,
                      raw_logger, ref, 0)
        lg_l == _logger(SliceTo(vec, split_l), SliceTo(fitness, split_l),
                        iteration, counts_logger_l, fitness_logger_l,
                        <<>>, ref, 0)
        lg_r == _logger(SliceFrom(vec, split_r), SliceFrom(fitness, split_r),
                        iteration, counts_logger_r, fitness_logger_r,
                        <<>>, ref, split_r)
    IN  /\ heap' = Store(heap, ref, vec)
        /\ counts' = ref
        /\ raw_logger' = lg.raw_logger
        /\ counts_logger' = lg.counts_logger
        /\ fitness_logger' = lg.fitness_logger
        /\ counts_logger_l' = lg_l.counts_logger
        /\ fitness_logger_l' = lg_l.fitness_logger
        /\ counts_logger_r' = lg_r.counts_logger
        /\ fitness_logger_r' = lg_r.fitness_logger
        /\ iteration' = iteration + 1
        /\ UNCHANGED <<params, pc, err, returned, draw, landed>>

\* one iteration of simulate_adjacent_landscape
GenerationAdjacent ==
    /\ pc = "loop" /\ landscape = "adjacent" /\ iteration < generations
    /\ \E out \in adjacent_landscape_wright_fisher(
                      n, l_l, l_r, u_ben, u_del, heap[counts], fitness) :
          IF out.err # "none" THEN Fail(out.err)
          ELSE LogSplit(out.vec, NewArrayRef(heap, counts), l_l + 1, l_l + 1)

\* one iteration of simulate_hybrid_landscape
GenerationHybrid ==
    /\ pc = "loop" /\ landscape = "hybrid" /\ iteration < generations
    /\ \E out \in hybrid_landscape_wright_fisher(
                      n, l_l, l_r, u_ben, u_del, p_r, heap[counts], fitness) :
          IF out.err # "none" THEN Fail(out.err)
          ELSE LogSplit(out.vec, NewArrayRef(heap, counts), l_l, l_l + 1)

\* the loop is over: the loggers are returned
Return ==
    /\ pc = "loop" /\ iteration >= generations
    /\ pc' = "done"
    /\ UNCHANGED <<params, err, iteration, heap, counts, returned,
                   raw_logger, loggers, draw, landed>>

\* the state at the call of an entry point
Entry ==
    /\ pc = "setup" /\ err = "none" /\ iteration = 0
    /\ heap = <<>> /\ counts = 0 /\ returned = 0 /\ raw_logger = <<>>
    /\ counts_logger = EmptyLog(0) /\ fitness_logger = EmptyLog(0)
    /\ counts_logger_l = EmptyLog(0) /\ fitness_logger_l = EmptyLog(0)
    /\ counts_logger_r = EmptyLog(0) /\ fitness_logger_r = EmptyLog(0)
    /\ draw = <<>> /\ landed = Raises("none")

\* the landscape sizes and the path probability an entry point takes
Shape(sizes) ==
    /\ landscape \in {"simple", "adjacent", "hybrid"}
    /\ l \in (IF landscape = "simple" THEN sizes ELSE {0})
    /\ l_l \in (IF landscape = "simple" THEN {0} ELSE sizes)
    /\ l_r \in (IF landscape = "simple" THEN {0} ELSE sizes)
    /\ p_r \in (IF landscape = "hybrid" THEN {0, 50, 100} ELSE {0})

\* a run with a valid configuration
Init ==
    /\ Shape(0..MaxL)
    /\ n \in 1..MaxN
    /\ u_ben \in {0, 1} /\ u_del \in {0, 1}
    /\ generations \in 0..MaxGen
    /\ Entry

Next ==
    \/ SetupSimple \/ SetupAdjacent \/ SetupHybrid
    \/ GenerationSimple \/ GenerationAdjacent \/ GenerationHybrid
    \/ Return

Spec == Init /\ [][Next]_vars

\* ---- a run with any configuration, the invalid ones included ----
InitConfig ==
    /\ Shape(-1..MaxL)
    /\ n \in {-1} \cup 1..MaxN
    /\ u_ben \in {-1, 0, 1} /\ u_del \in {-1, 0, 1}
    /\ generations \in 0..MaxGen
    /\ Entry

SpecConfig == InitConfig /\ [][Next]_vars

\* ---- a run of several generations with a valid configuration ----
InitLog ==
    /\ Shape(0..MaxLogL)
    /\ n \in 1..MaxLogN
    /\ u_ben \in {0, 1} /\ u_del \in {0, 1}
    /\ generations \in 0..MaxLogGen
    /\ Entry

SpecLog == InitLog /\ [][Next]_vars

\* ---- one call of an update function ----
\* the bin-count vector with all pop individuals in bin j
OneBin(size, pop, j) == [np_zeros(size) EXCEPT ![j] = pop]

\* the size of the bin-count vector of the landscape
VectorSize ==
    CASE landscape = "simple" -> l + 1
      [] landscape = "adjacent" -> l_l + l_r + 2
      [] landscape = "hybrid" -> l_l + l_r + 1

\* the caller holds a vector with the whole population in one bin
InitCall ==
    /\ Shape(0..MaxCallL)
    /\ n \in 1..MaxCallN
    /\ u_ben \in {0, 1} /\ u_del \in {0, 1}
    /\ generations = 0
    /\ pc = "call" /\ err = "none" /\ iteration = 0
    /\ \E j \in 0..(VectorSize - 1) : heap = <<OneBin(VectorSize, n, j)>>
    /\ counts = 1 /\ returned = 0 /\ raw_logger = <<>>
    /\ counts_logger = EmptyLog(0) /\ fitness_logger = EmptyLog(0)
    /\ counts_logger_l = EmptyLog(0) /\ fitness_logger_l = EmptyLog(0)
    /\ counts_logger_r = EmptyLog(0) /\ fitness_logger_r = EmptyLog(0)
    /\ draw = <<>> /\ landed = Raises("none")

\* the caller gets the vector out.vec back, or the exception
Called(out) ==
    IF out.err # "none" THEN Fail(out.err)
    ELSE /\ pc' = "returned"
         /\ returned' = NewArrayRef(heap, counts)
         /\ heap' = Store(heap, NewArrayRef(heap, counts), out.vec)
         /\ UNCHANGED <<params, err, iteration, counts, raw_logger, loggers,
                        draw, landed>>

CallSimple ==
    /\ pc = "call" /\ landscape = "simple"
    /\ \E out \in simple_landscape_wright_fisher(
                      n, l, u_ben, u_del, heap[counts], fitness) : Called(out)

CallAdjacent ==
    /\ pc = "call" /\ landscape = "adjacent"
    /\ \E out \in adjacent_landscape_wright_fisher(
                      n, l_l, l_r, u_ben, u_del, heap[counts], fitness) :
          Called(out)

CallHybrid ==
    /\ pc = "call" /\ landscape = "hybrid"
    /\ \E out \in hybrid_landscape_wright_fisher(
                      n, l_l, l_r, u_ben, u_del, p_r, heap[counts], fitness) :
          Called(out)

NextCall == CallSimple \/ CallAdjacent \/ CallHybrid

SpecCall == InitCall /\ [][NextCall]_vars

\* ---- the loop body of an update function on one newborn ----
InitDest ==
    /\ Shape(0..MaxDestL)
    /\ n = 1
    /\ u_ben = 1 /\ u_del = 1
    /\ generations = 0
    /\ pc = "classify" /\ err = "none" /\ iteration = 0
    /\ heap = <<>> /\ counts = 0 /\ returned = 0 /\ raw_logger = <<>>
    /\ counts_logger = EmptyLog(0) /\ fitness_logger = EmptyLog(0)
    /\ counts_logger_l = EmptyLog(0) /\ fitness_logger_l = EmptyLog(0)
    /\ counts_logger_r = EmptyLog(0) /\ fitness_logger_r = EmptyLog(0)
    /\ draw = <<>> /\ landed = Raises("none")

\* newborn b with mutations ben and del (and the coin, at the hybrid peak)
\* is counted at index idx of a fresh counts_next
Classified(b, ben, del, coin, idx) ==
    /\ draw' = <<b, ben, del, coin, idx>>
    /\ landed' = tally(VectorSize, 1, [i \in {0} |-> idx])
    /\ UNCHANGED <<params, pc, err, iteration, heap, counts, returned,
                   raw_logger, loggers>>

ClassifySimple ==
    /\ pc = "classify" /\ landscape = "simple"
    /\ \E b \in 0..l, ben \in MutSupport(u_ben), del \in MutSupport(u_del) :
          Classified(b, ben, del, 0, simple_index(l, b, ben, del))

ClassifyAdjacent ==
    /\ pc = "classify" /\ landscape = "adjacent"
    /\ \E b \in 0..(l_l + l_r + 1),
          ben \in MutSupport(u_ben), del \in MutSupport(u_del) :
          Classified(b, ben, del, 0, adjacent_index(l_l, l_r, b, ben, del))

ClassifyHybrid ==
    /\ pc = "classify" /\ landscape = "hybrid"
    /\ \E b \in 0..(l_l + l_r), ben \in MutSupport(u_ben),
          del \in MutSupport(u_del), coin \in CoinSupport(p_r) :
          Classified(b, ben, del, coin,
                     hybrid_index(l_l, l_r, b, ben, del, coin))

NextDest == ClassifySimple \/ ClassifyAdjacent \/ ClassifyHybrid

SpecDest == InitDest /\ [][NextDest]_vars

\* ======================= the claims =======================
\* the newborn of a single classification, once one was applied
Classified1 == pc = "classify" /\ draw # <<>>

\* the newborn was counted in bin k of the fresh vector, and nowhere else
LandedAt(k) ==
    /\ landed.err = "none"
    /\ k \in DOMAIN landed.vec
    /\ landed.vec = OneBin(VectorSize, 1, k)

\* C1: population conservation: the initial vector and the vector every
\* generation of the three update functions returns sum exactly to n
C1_PopulationConserved ==
    pc \in {"loop", "done", "error"} =>
        \A ref \in 1..Len(heap) : np_sum(heap[ref]) = n

\* C1 witness: a generation returned a vector with several individuals in
\* bins other than the one they started from
C1_Witness ==
    /\ pc = "done" /\ iteration >= 1 /\ n >= 2
    /\ heap[counts] # heap[1]
    /\ \E k \in DOMAIN heap[counts] : heap[counts][k] >= 2 /\ heap[1][k] = 0

\* C2: adjacent update: a left-range newborn (b <= l_l) with
\* m = b - ben + del lands exactly at l_l + 1 when m > l_l and at max(0, m)
\* otherwise; a right-range newborn with m = b + ben - del lands exactly at
\* l_l when m <= l_l and at min(l_l + l_r + 1, m) otherwise
C2_AdjacentLanding ==
    (Classified1 /\ landscape = "adjacent") =>
        LET b == draw[1]
            ben == draw[2]
            del == draw[3]
        IN  IF b <= l_l
            THEN IF b - ben + del > l_l THEN LandedAt(l_l + 1)
                 ELSE LandedAt(Max(0, b - ben + del))
            ELSE IF b + ben - del <= l_l THEN LandedAt(l_l)
                 ELSE LandedAt(Min(l_l + l_r + 1, b + ben - del))

\* C2 witness: l_l = l_r = 2, newborn at bin 2 with no beneficial and two
\* deleterious mutations is counted at bin 3
C2_Witness ==
    /\ Classified1 /\ landscape = "adjacent" /\ l_l = 2 /\ l_r = 2
    /\ draw[1] = 2 /\ draw[2] = 0 /\ draw[3] = 2
    /\ LandedAt(3)

\* C3 as claimed: a newborn at the hybrid peak l_l, with
\* m = max(0, del - ben), is counted at bin l_l + m when the coin succeeds
\* and at bin l_l - m when it fails
C3_PeakLanding ==
    (Classified1 /\ landscape = "hybrid" /\ draw[1] = l_l) =>
        LET m == Max(0, draw[3] - draw[2])
        IN  IF draw[4] = 1 THEN LandedAt(l_l + m) ELSE LandedAt(l_l - m)

\* C4: simple update: the newborn is counted in bin
\* min(l, max(0, b - ben + del)), within 0..l
C4_SimpleLanding ==
    (Classified1 /\ landscape = "simple") =>
        LET k == Min(l, Max(0, draw[1] - draw[2] + draw[3]))
        IN  k \in 0..l /\ LandedAt(k)

\* C4 witness: deleterious mutations past the upper boundary are held at l
\* and beneficial ones past the lower boundary at 0
C4_Witness ==
    /\ Classified1 /\ landscape = "simple" /\ l >= 2
    /\ draw[1] = l - 1 /\ draw[2] = 0 /\ draw[3] = 2
    /\ LandedAt(l)

\* C5: hybrid update off the peak: a newborn at b < l_l lands at
\* min(l_l, max(0, b + ben - del)), within 0..l_l; a newborn at b > l_l lands
\* at min(l_l + l_r, max(l_l, b - ben + del)), within l_l..l_l + l_r
C5_OffPeakConfined ==
    (Classified1 /\ landscape = "hybrid" /\ draw[1] # l_l) =>
        LET b == draw[1]
            ben == draw[2]
            del == draw[3]
            left == Min(l_l, Max(0, b + ben - del))
            right == Min(l_l + l_r, Max(l_l, b - ben + del))
        IN  IF b < l_l
            THEN left \in 0..l_l /\ LandedAt(left)
            ELSE right \in l_l..(l_l + l_r) /\ LandedAt(right)

\* C5 witness: a newborn left of the peak whose beneficial mutations would
\* carry it past the peak is held at the peak
C5_Witness ==
    /\ Classified1 /\ landscape = "hybrid" /\ l_r >= 1
    /\ draw[1] < l_l /\ draw[1] + draw[2] - draw[3] > l_l
    /\ LandedAt(l_l)

\* C6: no mutation, no movement: with u_ben = u_del = 0 an update called on
\* a vector holding all n individuals in one bin returns an equal vector
C6_NoMutationNoMovement ==
    (pc \in {"returned", "error"} /\ u_ben = 0 /\ u_del = 0
        /\ \E j \in 0..(VectorSize - 1) :
              heap[counts] = OneBin(VectorSize, n, j)) =>
        /\ pc = "returned"
        /\ heap[returned] = heap[counts]

\* C6 witness: the adjacent update returned the population left in the
\* valley bin l_l
C6_Witness ==
    /\ pc = "returned" /\ u_ben = 0 /\ u_del = 0
    /\ landscape = "adjacent" /\ n >= 2
    /\ heap[counts] = OneBin(VectorSize, n, l_l)
    /\ heap[returned] = heap[counts]

\* one step keeps every array built so far, the input of the update
\* included, and every entry of the raw log; on the adjacent and the hybrid
\* landscape the log holds iteration + 1 vectors, the newest last
C7_Step ==
    /\ \A ref \in 1..Len(heap) :
          ref <= Len(heap') /\ heap'[ref] = heap[ref]
    /\ \A i \in 1..Len(raw_logger) :
          /\ i <= Len(raw_logger')
          /\ raw_logger'[i] = raw_logger[i]
          /\ heap'[raw_logger'[i]] = heap[raw_logger[i]]
    /\ counts' # counts => counts' \notin 1..Len(heap)
    /\ (pc' \in {"loop", "done"} /\ landscape' # "simple") =>
          /\ Len(raw_logger') = iteration' + 1
          /\ raw_logger'[Len(raw_logger')] = counts'

\* C7: each generation builds a new vector and leaves its input unchanged,
\* so no vector of the raw log is ever altered, and after g generations the
\* log holds g + 1 vectors in generation order
C7_LogNeverAltered == [][C7_Step]_vars

\* C7 witness: a second generation ran after the output of the first was
\* logged; the log holds the initial vector and the outputs of generations
\* one and two, in that order and all different
C7_Witness ==
    /\ Len(raw_logger) >= 3 /\ iteration >= 2
    /\ raw_logger[1] = 1 /\ raw_logger[2] = 2 /\ raw_logger[3] = 3
    /\ heap[raw_logger[1]] # heap[raw_logger[2]]
    /\ heap[raw_logger[2]] # heap[raw_logger[3]]
    /\ heap[raw_logger[1]] # heap[raw_logger[3]]

\* a configuration with a negative population size, landscape size or
\* mutation rate
InvalidConfig ==
    \/ n < 0
    \/ l < 0 \/ l_l < 0 \/ l_r < 0
    \/ u_ben < 0 \/ u_del < 0

\* C8 as claimed: with an invalid configuration no generation is executed
\* and no statistics are recorded
C8_InvalidRejected == InvalidConfig => iteration = 0

\* the rows of one iteration when the logged vector is empty
ZeroRow == <<Zero, Zero>>

\* the rows of the other iterations stay, and no row is NaN
RowsKept(old, new, it) ==
    /\ \A j \in DOMAIN old : j # it => new[j] = old[j]
    /\ \A j \in DOMAIN new : new[j][1] # NaN /\ new[j][2] # NaN

\* the iteration just logged: an empty whole, left or right vector gave rows
\* of exactly (0.0, 0.0) in its two loggers
C9_Step ==
    iteration' = iteration + 1 =>
        LET vec == heap'[counts']
            left == SliceTo(vec, IF landscape = "adjacent" THEN l_l + 1 ELSE l_l)
            right == SliceFrom(vec, l_l + 1)
        IN  /\ np_sum(vec) = 0 =>
                /\ counts_logger'[iteration] = ZeroRow
                /\ fitness_logger'[iteration] = ZeroRow
            /\ RowsKept(counts_logger, counts_logger', iteration)
            /\ RowsKept(fitness_logger, fitness_logger', iteration)
            /\ landscape # "simple" =>
                /\ np_sum(left) = 0 =>
                      /\ counts_logger_l'[iteration] = ZeroRow
                      /\ fitness_logger_l'[iteration] = ZeroRow
                /\ np_sum(right) = 0 =>
                      /\ counts_logger_r'[iteration] = ZeroRow
                      /\ fitness_logger_r'[iteration] = ZeroRow
                /\ RowsKept(counts_logger_l, counts_logger_l', iteration)
                /\ RowsKept(fitness_logger_l, fitness_logger_l', iteration)
                /\ RowsKept(counts_logger_r, counts_logger_r', iteration)
                /\ RowsKept(fitness_logger_r, fitness_logger_r', iteration)

\* C9: _logger called with a vector that sums to 0 records exactly
\* (0.0, 0.0) for the count and the fitness statistics of that iteration,
\* never NaN, and changes no other iteration's row
C9_EmptyLoggedAsZero == [][C9_Step]_vars

\* C9 witness: on the adjacent landscape the right half held the population
\* in the first generation and was empty in the second: its row 1 is
\* (0.0, 0.0) in both loggers while its row 0 keeps the earlier statistics,
\* and the left half, empty and then occupied, has the rows the other way
C9_Witness ==
    /\ landscape = "adjacent" /\ iteration >= 2 /\ l_l >= 1
    /\ np_sum(SliceFrom(heap[raw_logger[2]], l_l + 1)) > 0
    /\ np_sum(SliceFrom(heap[raw_logger[3]], l_l + 1)) = 0
    /\ counts_logger_r[1] = ZeroRow /\ fitness_logger_r[1] = ZeroRow
    /\ counts_logger_r[0] # ZeroRow /\ fitness_logger_r[0] # ZeroRow
    /\ counts_logger_l[0] = ZeroRow /\ fitness_logger_l[0] = ZeroRow
    /\ counts_logger_l[1] # ZeroRow /\ fitness_logger_l[1] # ZeroRow

\* C10: the hybrid peak branch is the only unclamped one: off the hybrid
\* peak every index lies within the vector; at the peak the index is
\* l_l + m or l_l - m as is, outside the vector exactly when m > l_r on the
\* right or m > l_l on the left
C10_OnlyPeakUnclamped ==
    Classified1 =>
        LET idx == draw[5]
            m == Max(0, draw[3] - draw[2])
        IN  IF landscape = "hybrid" /\ draw[1] = l_l
            THEN /\ idx = (IF draw[4] = 1 THEN l_l + m ELSE l_l - m)
                 /\ (idx \notin 0..(VectorSize - 1)) <=>
                        \/ draw[4] = 1 /\ m > l_r
                        \/ draw[4] = 0 /\ m > l_l
            ELSE idx \in 0..(VectorSize - 1) /\ LandedAt(idx)

\* C10 witness: a peak newborn whose index l_l + m lies past the last bin
C10_Witness ==
    /\ Classified1 /\ landscape = "hybrid" /\ draw[1] = l_l /\ l_r >= 1
    /\ draw[4] = 1 /\ draw[5] = l_l + draw[3] - draw[2]
    /\ draw[5] > l_l + l_r
    /\ landed.err = "IndexError"

=============================================================================
